---- MODULE Spec2Model ----
(***************************************************************************)
(* Webhook event filters (clickup_sdk/webhook/filters.py), the dispatcher  *)
(* that uses them, and the value formatters of the broker message          *)
(* (clickup/savdo/when_broker_set/components.py).                          *)
(*                                                                         *)
(* Python values are tagged records.  A scalar is [t, s]: t is "absent"    *)
(* (the key is missing from its mapping), "none", "str", "int", "float",   *)
(* "bool" or "obj" (a list or a mapping); s is the character codes of      *)
(* str(value).  The outcome of a check is "True", "False" or the name of   *)
(* the exception it raises.                                                *)
(***************************************************************************)
EXTENDS Integers, Sequences, FiniteSets, TLC

VARIABLES pc, args, event, flt, result, calls,
          registry, invoked, fn, value, output

vars == <<pc, args, event, flt, result, calls, registry, invoked, fn, value, output>>

(* ------------------------------------------------------------------ *)
(* Python scalars                                                     *)
(* ------------------------------------------------------------------ *)
Absent == [t |-> "absent", s |-> <<>>]
NoneV == [t |-> "none", s |-> <<>>]
StrV(s) == [t |-> "str", s |-> s]

RECURSIVE Digits(_)
Digits(n) == IF n < 10 THEN <<48 + n>> ELSE Digits(n \div 10) \o <<48 + (n % 10)>>

\* the integer n
IntV(n) == [t |-> "int", s |-> IF n < 0 THEN <<45>> \o Digits(0 - n) ELSE Digits(n)]
\* an integer, a float, a bool, a list or mapping, given as its str()
BigIntV(s) == [t |-> "int", s |-> s]
FloatV(s) == [t |-> "float", s |-> s]
BoolV(s) == [t |-> "bool", s |-> s]
ObjV(s) == [t |-> "obj", s |-> s]

\* bool(v): None, "", 0, 0.0, False, [] and {} are falsy
Truthy(v) ==
    CASE v.t = "str" -> v.s # <<>>
      [] v.t = "int" -> v.s # <<48>>
      [] v.t = "float" -> v.s \notin {<<48, 46, 48>>, <<45, 48, 46, 48>>}
      [] v.t = "bool" -> v.s = <<84, 114, 117, 101>>
      [] v.t = "obj" -> v.s \notin {<<91, 93>>, <<123, 125>>}
      [] OTHER -> FALSE

\* mapping.get(key): a missing key reads as None
Get(v) == IF v.t = "absent" THEN NoneV ELSE v

\* mapping.get(key, ""): a missing key reads as the empty string
GetOrEmpty(v) == IF v.t = "absent" THEN StrV(<<>>) ELSE v

\* a or b
PyOr(a, b) == IF Truthy(a) THEN a ELSE b

\* a == b on scalars: values of different types are never equal
PyEq(a, b) == a.t = b.t /\ a.s = b.s

\* str(v)
PyStr(v) == IF v.t = "none" THEN <<78, 111, 110, 101>> ELSE v.s

LowerCh(c) == IF c \in 65..90 THEN c + 32 ELSE c
UpperCh(c) == IF c \in 97..122 THEN c - 32 ELSE c

RECURSIVE Lower(_)
Lower(s) == IF s = <<>> THEN <<>> ELSE <<LowerCh(Head(s))>> \o Lower(Tail(s))

RECURSIVE Upper(_)
Upper(s) == IF s = <<>> THEN <<>> ELSE <<UpperCh(Head(s))>> \o Upper(Tail(s))

\* sub in s
Contains(sub, s) == \E i \in 0..(Len(s) - Len(sub)) : SubSeq(s, i + 1, i + Len(sub)) = sub

(* ------------------------------------------------------------------ *)
(* History items                                                      *)
(* ------------------------------------------------------------------ *)
\* the value of a "status" entry: absent, None, a string, or a mapping
\* with its own "status" entry
NoStatus == [t |-> "absent", status |-> Absent]
StatusDict(v) == [t |-> "dict", status |-> v]
StatusScalar(tag) == [t |-> tag, status |-> Absent]

\* the value of an "assignees" entry: absent, a non-list, or a list whose
\* entries are mappings (v is the mapping's "id" entry) or scalars (v)
NoAssignees == [t |-> "absent", l |-> <<>>]
AssigneeList(l) == [t |-> "list", l |-> l]
AssigneeDict(id) == [t |-> "dict", v |-> id]
AssigneeScalar(v) == [t |-> "scalar", v |-> v]

\* the value of a "before"/"after" entry
EmptyDict == [t |-> "dict", id |-> Absent, field_id |-> Absent, name |-> Absent,
              status |-> NoStatus, assignees |-> NoAssignees]
NoObj == [EmptyDict EXCEPT !.t = "absent"]
ScalarObj(tag) == [EmptyDict EXCEPT !.t = tag]

\* item.get("after", {})
GetOrDict(o) == IF o.t = "absent" THEN EmptyDict ELSE o

EmptyItem == [field |-> Absent, field_id |-> Absent, id |-> Absent,
              before |-> NoObj, after |-> NoObj]

\* event.history_items: None or a list of items
NoHistory == [t |-> "none", l |-> <<>>]
History(l) == [t |-> "list", l |-> l]

\* not event.history_items
HistoryFalsy(ev) == ev.history_items.t = "none" \/ ev.history_items.l = <<>>

(* ------------------------------------------------------------------ *)
(* Filters                                                            *)
(* ------------------------------------------------------------------ *)
NoFilter == [kind |-> "none", field_id |-> NoneV, field_name |-> NoneV,
             from_status |-> NoneV, to_status |-> NoneV, user_id |-> NoneV,
             filters |-> <<>>, logic |-> <<>>]

\* a constructor that raised ValueError
ConfigError == [NoFilter EXCEPT !.kind = "ValueError"]

CustomFieldFilter_init(field_id, field_name) ==
    IF ~Truthy(field_id) /\ ~Truthy(field_name)
    THEN ConfigError
    ELSE [NoFilter EXCEPT !.kind = "CustomFieldFilter",
                          !.field_id = field_id, !.field_name = field_name]

\* MatchFieldId reading the item's field_id entry only, without the id fallback
MatchFieldId_NoIdFallback(self, item) ==
    LET field == GetOrEmpty(item.field)
        field_id == Get(item.field_id)
        after == GetOrDict(item.after)
        before == GetOrDict(item.before)
    IN  IF Truthy(field_id) /\ PyStr(field_id) = PyStr(self.field_id) THEN "True"
        ELSE IF Truthy(field) /\ Contains(PyStr(self.field_id), PyStr(field)) THEN "True"
        ELSE IF after.t = "dict"
                /\ (PyEq(Get(after.id), self.field_id)
                    \/ PyEq(Get(after.field_id), self.field_id)) THEN "True"
        ELSE IF before.t = "dict"
                /\ (PyEq(Get(before.id), self.field_id)
                    \/ PyEq(Get(before.field_id), self.field_id)) THEN "True"
        ELSE "next"

\* the "Check by field ID" block for one item
MatchFieldId(self, item) ==
    LET field == GetOrEmpty(item.field)
        field_id == PyOr(Get(item.field_id), Get(item.id))
        after == GetOrDict(item.after)
        before == GetOrDict(item.before)
    IN  IF Truthy(field_id) /\ PyStr(field_id) = PyStr(self.field_id) THEN "True"
        ELSE IF Truthy(field) /\ Contains(PyStr(self.field_id), PyStr(field)) THEN "True"
        ELSE IF after.t = "dict"
                /\ (PyEq(Get(after.id), self.field_id)
                    \/ PyEq(Get(after.field_id), self.field_id)) THEN "True"
        ELSE IF before.t = "dict"
                /\ (PyEq(Get(before.id), self.field_id)
                    \/ PyEq(Get(before.field_id), self.field_id)) THEN "True"
        ELSE "next"

\* name.lower() in obj.get("name", "").lower(), for a nested mapping
MatchNestedName(self, obj, otherwise) ==
    IF obj.t = "dict" /\ Truthy(Get(obj.name))
    THEN IF obj.name.t # "str" THEN "AttributeError"
         ELSE IF Contains(Lower(self.field_name.s), Lower(obj.name.s)) THEN "True"
         ELSE otherwise
    ELSE otherwise

\* the "Check by field name" block for one item
MatchFieldName(self, item) ==
    LET field == GetOrEmpty(item.field)
        after == GetOrDict(item.after)
        before == GetOrDict(item.before)
        nested == MatchNestedName(self, after, MatchNestedName(self, before, "next"))
    IN  IF Truthy(field)
        THEN IF field.t # "str" THEN "AttributeError"
             ELSE IF Contains(Lower(self.field_name.s), Lower(field.s)) THEN "True"
             ELSE nested
        ELSE nested

\* one pass of the loop body of CustomFieldFilter.check
CustomFieldItem(self, item) ==
    LET by_id == IF Truthy(self.field_id) THEN MatchFieldId(self, item) ELSE "next"
    IN  IF by_id # "next" THEN by_id
        ELSE IF Truthy(self.field_name) THEN MatchFieldName(self, item)
        ELSE "next"

RECURSIVE CustomFieldLoop(_, _)
CustomFieldLoop(self, items) ==
    IF items = <<>> THEN "False"
    ELSE LET r == CustomFieldItem(self, Head(items))
         IN  IF r = "next" THEN CustomFieldLoop(self, Tail(items)) ELSE r

CustomFieldFilter_check(self, ev) ==
    IF ev.event # "taskUpdated" THEN "False"
    ELSE IF HistoryFalsy(ev) THEN "False"
    ELSE CustomFieldLoop(self, ev.history_items.l)

TaskStatusFilter_init(from_status, to_status) ==
    [NoFilter EXCEPT !.kind = "TaskStatusFilter",
                     !.from_status = from_status, !.to_status = to_status]

\* a read that raised AttributeError
Raised == [t |-> "raise", s |-> <<>>]

\* obj.get("status", {}).get("status", "") if isinstance(obj, dict) else "":
\* the value read, or Raised when the "status" entry has no .get
StatusOf(obj) ==
    IF obj.t # "dict" THEN StrV(<<>>)
    ELSE IF obj.status.t = "absent" THEN StrV(<<>>)
    ELSE IF obj.status.t # "dict" THEN Raised
    ELSE GetOrEmpty(obj.status.status)

\* constraint and status.lower() != constraint.lower():
\* "skip", "pass", or "AttributeError" when status has no .lower
StatusConstraint(constraint, status) ==
    IF ~Truthy(constraint) THEN "pass"
    ELSE IF status.t # "str" THEN "AttributeError"
    ELSE IF Lower(status.s) # Lower(constraint.s) THEN "skip"
    ELSE "pass"

\* one pass of the loop body of TaskStatusFilter.check
TaskStatusItem(self, item) ==
    LET old_status == StatusOf(GetOrDict(item.before))
        new_status == StatusOf(GetOrDict(item.after))
    IN  IF old_status.t = "raise" \/ new_status.t = "raise"
        THEN "AttributeError"
        ELSE LET from == StatusConstraint(self.from_status, old_status)
             IN  IF from = "AttributeError" THEN "AttributeError"
                 ELSE IF from = "skip" THEN "next"
                 ELSE LET to == StatusConstraint(self.to_status, new_status)
                      IN  IF to = "AttributeError" THEN "AttributeError"
                          ELSE IF to = "skip" THEN "next"
                          ELSE "True"

RECURSIVE TaskStatusLoop(_, _)
TaskStatusLoop(self, items) ==
    IF items = <<>> THEN "False"
    ELSE LET r == TaskStatusItem(self, Head(items))
         IN  IF r = "next" THEN TaskStatusLoop(self, Tail(items)) ELSE r

\* TaskStatusFilter.check without its guard on a missing history: the loop
\* over None raises TypeError
TaskStatusFilter_check_NoGuard(self, ev) ==
    IF ev.event # "taskStatusUpdated" THEN "False"
    ELSE IF ev.history_items.t = "none" THEN "TypeError"
    ELSE TaskStatusLoop(self, ev.history_items.l)

TaskStatusFilter_check(self, ev) ==
    IF ev.event # "taskStatusUpdated" THEN "False"
    ELSE IF HistoryFalsy(ev) THEN "False"
    ELSE TaskStatusLoop(self, ev.history_items.l)

TaskAssigneeFilter_init(user_id) ==
    [NoFilter EXCEPT !.kind = "TaskAssigneeFilter", !.user_id = user_id]

\* AssigneeMatches without the test of a bare value
AssigneeMatches_DictOnly(self, assignee) ==
    assignee.t = "dict" /\ PyEq(Get(assignee.v), self.user_id)

\* the two tests made on one entry of an "assignees" list
AssigneeMatches(self, assignee) ==
    \/ assignee.t = "dict" /\ PyEq(Get(assignee.v), self.user_id)
    \/ assignee.t = "scalar" /\ PyEq(assignee.v, self.user_id)

\* one pass of the loop body of TaskAssigneeFilter.check
TaskAssigneeItem(self, item) ==
    LET after == GetOrDict(item.after)
    IN  IF after.t = "dict" /\ after.assignees.t = "list"
           /\ \E i \in 1..Len(after.assignees.l) :
                  AssigneeMatches(self, after.assignees.l[i])
        THEN "True" ELSE "next"

RECURSIVE TaskAssigneeLoop(_, _)
TaskAssigneeLoop(self, items) ==
    IF items = <<>> THEN "False"
    ELSE LET r == TaskAssigneeItem(self, Head(items))
         IN  IF r = "next" THEN TaskAssigneeLoop(self, Tail(items)) ELSE r

\* TaskAssigneeFilter.check testing for a target user before the event type
TaskAssigneeFilter_check_AnyBeforeGate(self, ev) ==
    IF ~Truthy(self.user_id) THEN "True"
    ELSE IF ev.event # "taskAssigneeUpdated" THEN "False"
    ELSE IF HistoryFalsy(ev) THEN "False"
    ELSE TaskAssigneeLoop(self, ev.history_items.l)

TaskAssigneeFilter_check(self, ev) ==
    IF ev.event # "taskAssigneeUpdated" THEN "False"
    ELSE IF ~Truthy(self.user_id) THEN "True"
    ELSE IF HistoryFalsy(ev) THEN "False"
    ELSE TaskAssigneeLoop(self, ev.history_items.l)

\* the logic strings "AND" and "OR"
AND == <<65, 78, 68>>
OR == <<79, 82>>

\* CombinedFilter.__init__ without the validation of the logic string
CombinedFilter_init_Unvalidated(filters, logic) ==
    [NoFilter EXCEPT !.kind = "CombinedFilter",
                     !.filters = filters, !.logic = Upper(logic)]

CombinedFilter_init(filters, logic) ==
    IF Upper(logic) \notin {AND, OR}
    THEN ConfigError
    ELSE [NoFilter EXCEPT !.kind = "CombinedFilter",
                          !.filters = filters, !.logic = Upper(logic)]

RECURSIVE Filter_check(_, _)
RECURSIVE CombinedLoop(_, _, _, _)

\* the loop of CombinedFilter.check from child i on: the results gathered,
\* the children whose check was awaited, and the exception that ended the
\* loop ("none" when every child returned)
CombinedLoop(filters, ev, i, acc) ==
    IF i > Len(filters) THEN acc
    ELSE LET r == Filter_check(filters[i], ev)
             called == Append(acc.calls, i)
         IN  IF r \in {"True", "False"}
             THEN CombinedLoop(filters, ev, i + 1,
                      [acc EXCEPT !.results = Append(@, r), !.calls = called])
             ELSE [acc EXCEPT !.calls = called, !.raised = r]

\* all(results) / any(results)
PyAll(results) == \A i \in 1..Len(results) : results[i] = "True"
PyAny(results) == \E i \in 1..Len(results) : results[i] = "True"

\* CombinedFilter.check: the outcome and the children awaited, in order
CombinedFilter_run(self, ev) ==
    IF self.filters = <<>> THEN [result |-> "True", calls |-> <<>>]
    ELSE LET run == CombinedLoop(self.filters, ev, 1,
                        [results |-> <<>>, calls |-> <<>>, raised |-> "none"])
             agg == IF self.logic = AND THEN PyAll(run.results) ELSE PyAny(run.results)
         IN  [result |-> IF run.raised # "none" THEN run.raised
                         ELSE IF agg THEN "True" ELSE "False",
              calls |-> run.calls]

CombinedFilter_check(self, ev) == CombinedFilter_run(self, ev).result

\* await filter_obj.check(event): the check of the filter's class
Filter_check(self, ev) ==
    CASE self.kind = "CustomFieldFilter" -> CustomFieldFilter_check(self, ev)
      [] self.kind = "TaskStatusFilter" -> TaskStatusFilter_check(self, ev)
      [] self.kind = "TaskAssigneeFilter" -> TaskAssigneeFilter_check(self, ev)
      [] self.kind = "CombinedFilter" -> CombinedFilter_check(self, ev)

(* ------------------------------------------------------------------ *)
(* Inputs                                                             *)
(* ------------------------------------------------------------------ *)
\* longest history list of an event, most children of a CombinedFilter
MaxHist == 2
MaxChildren == 2

\* the strings "x", "q", "d", "ax", "aY", "y", "Y", "" used as ids and labels
sx == <<120>>
sq == <<113>>
sd == <<100>>
sax == <<97, 120>>
saY == <<97, 89>>
sy == <<121>>
sY == <<89>>
\* the statuses "a", "A", "b", "B" and the user ids "u", "v"
sa == <<97>>
sA == <<65>>
sb == <<98>>
sB == <<66>>
su == <<117>>
sv == <<118>>

EventTypes == {"taskUpdated", "taskupdated", "taskStatusUpdated", "TaskStatusUpdated",
               "taskAssigneeUpdated", "taskCreated"}

\* history items of custom field changes
FieldItems ==
    { EmptyItem,
      [EmptyItem EXCEPT !.field_id = StrV(sx), !.field = StrV(sd)],
      [EmptyItem EXCEPT !.id = StrV(sx)],
      [EmptyItem EXCEPT !.field_id = StrV(sq), !.id = StrV(sx)],
      [EmptyItem EXCEPT !.field_id = StrV(sx), !.id = StrV(sq)],
      [EmptyItem EXCEPT !.id = StrV(sq), !.field = StrV(sd)],
      [EmptyItem EXCEPT !.field_id = StrV(sax), !.id = StrV(sx)],
      [EmptyItem EXCEPT !.field_id = StrV(<<>>), !.id = StrV(sx)],
      [EmptyItem EXCEPT !.field_id = NoneV, !.id = StrV(sx)],
      [EmptyItem EXCEPT !.field_id = IntV(0), !.id = StrV(sx)],
      [EmptyItem EXCEPT !.field_id = IntV(7), !.field = StrV(sd)],
      [EmptyItem EXCEPT !.field_id = StrV(sq), !.field = StrV(sd)],
      [EmptyItem EXCEPT !.field = StrV(sax)],
      [EmptyItem EXCEPT !.field = StrV(saY)],
      [EmptyItem EXCEPT !.after = [EmptyDict EXCEPT !.id = StrV(sx)]],
      [EmptyItem EXCEPT !.before = [EmptyDict EXCEPT !.field_id = StrV(sx)]],
      [EmptyItem EXCEPT !.after = [EmptyDict EXCEPT !.name = StrV(sY)]],
      [EmptyItem EXCEPT !.after = [EmptyDict EXCEPT !.name = IntV(7)]] }

\* the shapes a "before"/"after" entry of a status change can have
WithStatus(st) == [EmptyDict EXCEPT !.status = st]
StatusShapes ==
    { NoObj, ScalarObj("none"), ScalarObj("str"), EmptyDict,
      WithStatus(StatusScalar("none")), WithStatus(StatusScalar("str")),
      WithStatus(StatusDict(Absent)), WithStatus(StatusDict(NoneV)),
      WithStatus(StatusDict(IntV(3))),
      WithStatus(StatusDict(StrV(sa))), WithStatus(StatusDict(StrV(sA))),
      WithStatus(StatusDict(StrV(sb))) }

\* history items of status changes
StatusItems ==
    { [EmptyItem EXCEPT !.before = o, !.after = WithStatus(StatusDict(StrV(sb)))]
        : o \in StatusShapes }
    \cup
    { [EmptyItem EXCEPT !.before = WithStatus(StatusDict(StrV(sa))), !.after = o]
        : o \in { NoObj, ScalarObj("str"), WithStatus(StatusScalar("str")),
                  WithStatus(StatusDict(IntV(3))), WithStatus(StatusDict(StrV(sB))),
                  WithStatus(StatusDict(StrV(sa))) } }

\* history items of assignee changes
WithAssignees(a) == [EmptyDict EXCEPT !.assignees = a]
AssigneeItems ==
    { [EmptyItem EXCEPT !.after = o] :
        o \in { NoObj, ScalarObj("str"), EmptyDict,
                WithAssignees([t |-> "none", l |-> <<>>]),
                WithAssignees(AssigneeList(<<>>)),
                WithAssignees(AssigneeList(<<AssigneeDict(StrV(su))>>)),
                WithAssignees(AssigneeList(<<AssigneeDict(StrV(sv))>>)),
                WithAssignees(AssigneeList(<<AssigneeDict(Absent)>>)),
                WithAssignees(AssigneeList(<<AssigneeDict(IntV(1))>>)),
                WithAssignees(AssigneeList(<<AssigneeScalar(StrV(su))>>)),
                WithAssignees(AssigneeList(<<AssigneeScalar(StrV(sv))>>)),
                WithAssignees(AssigneeList(<<AssigneeDict(StrV(sv)),
                                             AssigneeDict(StrV(su))>>)),
                WithAssignees(AssigneeList(<<AssigneeScalar(IntV(1)),
                                             AssigneeScalar(StrV(su))>>)) } }

\* the sequences over S of length at most n
SeqsUpTo(S, n) == UNION { [1..k -> S] : k \in 0..n }

\* history_items: None, or a list of at most MaxHist items
Histories(items) == {NoHistory} \cup { History(l) : l \in SeqsUpTo(items, MaxHist) }

Event(type, history) == [event |-> type, history_items |-> history]
Events(items) == { Event(e, h) : e \in EventTypes, h \in Histories(items) }

\* constructor arguments: the filter class, its two scalar arguments, and the
\* child list and logic string of a CombinedFilter
Args(kind, a, b, filters, logic) ==
    [kind |-> kind, a |-> a, b |-> b, filters |-> filters, logic |-> logic]

FieldArgs == { Args("CustomFieldFilter", a, b, <<>>, <<>>) :
                 a \in {NoneV, StrV(<<>>), StrV(sx)},
                 b \in {NoneV, StrV(<<>>), StrV(sy)} }
StatusArgs == { Args("TaskStatusFilter", a, b, <<>>, <<>>) :
                  a \in {NoneV, StrV(<<>>), StrV(sa)}, b \in {NoneV, StrV(sB)} }
AssigneeArgs == { Args("TaskAssigneeFilter", a, NoneV, <<>>, <<>>) :
                    a \in {NoneV, StrV(<<>>), StrV(su)} }

\* filters that can be handed to a CombinedFilter
Children ==
    { CustomFieldFilter_init(StrV(sx), NoneV), CustomFieldFilter_init(NoneV, StrV(sy)),
      TaskStatusFilter_init(NoneV, StrV(sB)),
      TaskAssigneeFilter_init(NoneV), TaskAssigneeFilter_init(StrV(su)),
      CombinedFilter_init(<<>>, AND) }

\* "AND", "and", "OR", "Or", "XOR", ""
Logics == { AND, <<97, 110, 100>>, OR, <<79, 114>>, <<88, 79, 82>>, <<>> }

CombinedArgs == { Args("CombinedFilter", NoneV, NoneV, fs, l) :
                    fs \in SeqsUpTo(Children, MaxChildren), l \in Logics }

\* events given to a CombinedFilter
CombinedEvents ==
    { Event("taskCreated", NoHistory),
      Event("taskUpdated", NoHistory),
      Event("taskUpdated", History(<<[EmptyItem EXCEPT !.field_id = StrV(sx)]>>)),
      Event("taskUpdated", History(<<[EmptyItem EXCEPT !.field = StrV(saY)]>>)),
      Event("taskUpdated", History(<<[EmptyItem EXCEPT !.field_id = StrV(sx),
                                                       !.field = StrV(sy)]>>)),
      Event("taskStatusUpdated", History(<<[EmptyItem EXCEPT
                 !.after = WithStatus(StatusDict(StrV(sb)))]>>)),
      Event("taskStatusUpdated", History(<<[EmptyItem EXCEPT
                 !.after = WithStatus(StatusDict(StrV(sa)))]>>)),
      Event("taskStatusUpdated", History(<<[EmptyItem EXCEPT
                 !.after = WithStatus(StatusScalar("str"))]>>)),
      Event("taskAssigneeUpdated", History(<<>>)),
      Event("taskAssigneeUpdated", History(<<[EmptyItem EXCEPT !.after =
                 WithAssignees(AssigneeList(<<AssigneeDict(StrV(su))>>))]>>)),
      Event("taskAssigneeUpdated", History(<<[EmptyItem EXCEPT !.after =
                 WithAssignees(AssigneeList(<<AssigneeDict(StrV(sv))>>))]>>)) }

EventsFor(kind) ==
    CASE kind = "CustomFieldFilter" -> Events(FieldItems)
      [] kind = "TaskStatusFilter" -> Events(StatusItems)
      [] kind = "TaskAssigneeFilter" -> Events(AssigneeItems)
      [] kind = "CombinedFilter" -> CombinedEvents

(* ------------------------------------------------------------------ *)
(* Constructing a filter and checking one event with it               *)
(* ------------------------------------------------------------------ *)
NoOutput == [kind |-> "none", form |-> "none", s |-> <<>>]

OtherIdle == /\ registry = <<>> /\ invoked = <<>>
             /\ fn = "none" /\ value = NoneV /\ output = NoOutput

Init == /\ args \in FieldArgs \cup StatusArgs \cup AssigneeArgs \cup CombinedArgs
        /\ event \in EventsFor(args.kind)
        /\ pc = "init" /\ flt = NoFilter /\ result = "none" /\ calls = <<>>
        /\ OtherIdle

Built(f) == /\ flt' = f
            /\ pc' = IF f.kind = "ValueError" THEN "failed" ELSE "built"
            /\ UNCHANGED <<args, event, result, calls, registry, invoked, fn, value, output>>

Checked(r, c) == /\ result' = r /\ calls' = c /\ pc' = "done"
                 /\ UNCHANGED <<args, event, flt, registry, invoked, fn, value, output>>

NewCustomFieldFilter ==
    /\ pc = "init" /\ args.kind = "CustomFieldFilter"
    /\ Built(CustomFieldFilter_init(args.a, args.b))

NewTaskStatusFilter ==
    /\ pc = "init" /\ args.kind = "TaskStatusFilter"
    /\ Built(TaskStatusFilter_init(args.a, args.b))

NewTaskAssigneeFilter ==
    /\ pc = "init" /\ args.kind = "TaskAssigneeFilter"
    /\ Built(TaskAssigneeFilter_init(args.a))

NewCombinedFilter ==
    /\ pc = "init" /\ args.kind = "CombinedFilter"
    /\ Built(CombinedFilter_init(args.filters, args.logic))

CheckCustomField ==
    /\ pc = "built" /\ flt.kind = "CustomFieldFilter"
    /\ Checked(CustomFieldFilter_check(flt, event), <<>>)

CheckTaskStatus ==
    /\ pc = "built" /\ flt.kind = "TaskStatusFilter"
    /\ Checked(TaskStatusFilter_check(flt, event), <<>>)

CheckTaskAssignee ==
    /\ pc = "built" /\ flt.kind = "TaskAssigneeFilter"
    /\ Checked(TaskAssigneeFilter_check(flt, event), <<>>)

CheckCombined ==
    /\ pc = "built" /\ flt.kind = "CombinedFilter"
    /\ LET run == CombinedFilter_run(flt, event)
       IN  Checked(run.result, run.calls)

Next == \/ NewCustomFieldFilter \/ NewTaskStatusFilter
        \/ NewTaskAssigneeFilter \/ NewCombinedFilter
        \/ CheckCustomField \/ CheckTaskStatus
        \/ CheckTaskAssignee \/ CheckCombined

Spec == Init /\ [][Next]_vars

(* ------------------------------------------------------------------ *)
(* Claims about the typed filters                                     *)
(* ------------------------------------------------------------------ *)
Items == event.history_items.l
Returned(kind) == pc = "done" /\ flt.kind = kind

\* a filter built from its field_id argument alone
ByFieldIdOnly == Returned("CustomFieldFilter") /\ ~Truthy(flt.field_name)

\* the item has the value X under the key (a missing key holds nothing)
Carries(entry, X) == entry.t # "absent" /\ PyEq(entry, X)

C2_GatedOnExactEventType ==
    /\ (Returned("CustomFieldFilter") /\ event.event # "taskUpdated") => result = "False"
    /\ (Returned("TaskStatusFilter") /\ event.event # "taskStatusUpdated") => result = "False"
    /\ (Returned("TaskAssigneeFilter") /\ event.event # "taskAssigneeUpdated")
           => result = "False"

\* an assignee filter without a target user, given an event of another type
C2_Witness ==
    /\ Returned("TaskAssigneeFilter") /\ flt.user_id = NoneV
    /\ event.event = "taskCreated" /\ result = "False"

\* the text at before.status.status / after.status.status, the empty string
\* when the path is absent or of the wrong shape
StatusText(obj) ==
    IF obj.t = "dict" /\ obj.status.t = "dict" /\ obj.status.status.t = "str"
    THEN obj.status.status.s ELSE <<>>

\* the item satisfies every constraint the filter has
SatisfiesStatus(f, item) ==
    /\ Truthy(f.from_status) => Lower(StatusText(item.before)) = Lower(f.from_status.s)
    /\ Truthy(f.to_status) => Lower(StatusText(item.after)) = Lower(f.to_status.s)

\* C3: on a "taskStatusUpdated" event the status filter returns true exactly
\* when some history item satisfies every constraint that is set, compared
\* without regard to case (so with no constraint, whenever there is an item,
\* and in any order of the items).
C3_TrueIffSomeItemSatisfies ==
    (Returned("TaskStatusFilter") /\ event.event = "taskStatusUpdated")
    => (result = "True" <=> \E i \in 1..Len(Items) : SatisfiesStatus(flt, Items[i]))

\* wherever the check returns, it returns true exactly for the events C3 names
C3_HoldsWhenCheckReturns ==
    (Returned("TaskStatusFilter") /\ event.event = "taskStatusUpdated"
       /\ result \in {"True", "False"})
    => (result = "True" <=> \E i \in 1..Len(Items) : SatisfiesStatus(flt, Items[i]))

\* some entry of the item's after.assignees list is a mapping with id U or
\* the bare value U
HasAssignee(item, U) ==
    /\ item.after.t = "dict" /\ item.after.assignees.t = "list"
    /\ \E j \in 1..Len(item.after.assignees.l) :
          LET e == item.after.assignees.l[j]
          IN  Carries(e.v, U)

\* C4: on a "taskAssigneeUpdated" event the assignee filter without a target
\* user id (None or empty) returns true, history or not; with a target U it
\* returns true exactly when some item's after.assignees holds a mapping
\* whose id is U or the bare value U.
C4_AssigneeMatch ==
    (Returned("TaskAssigneeFilter") /\ event.event = "taskAssigneeUpdated")
    => IF ~Truthy(flt.user_id) THEN result = "True"
       ELSE /\ result \in {"True", "False"}
            /\ result = "True" <=> \E i \in 1..Len(Items) : HasAssignee(Items[i], flt.user_id)

\* the target is found as a bare value in the second item
C4_Witness ==
    /\ Returned("TaskAssigneeFilter") /\ event.event = "taskAssigneeUpdated"
    /\ Truthy(flt.user_id) /\ result = "True" /\ Len(Items) = 2
    /\ ~HasAssignee(Items[1], flt.user_id)
    /\ \E j \in 1..Len(Items[2].after.assignees.l) :
          Items[2].after.assignees.l[j] = AssigneeScalar(flt.user_id)

\* the filter has to look at the history
NeedsHistory == \/ flt.kind \in {"CustomFieldFilter", "TaskStatusFilter"}
                \/ flt.kind = "TaskAssigneeFilter" /\ Truthy(flt.user_id)

\* C6: for an event whose history_items is None or empty, every filter that
\* has to look at the history returns false and raises nothing, whatever the
\* event type and the filter's criteria.
C6_NoHistoryNoMatch ==
    (pc = "done" /\ NeedsHistory /\ HistoryFalsy(event)) => result = "False"

\* a status filter without constraints on its own event type, history None
C6_Witness ==
    /\ Returned("TaskStatusFilter") /\ event.event = "taskStatusUpdated"
    /\ event.history_items = NoHistory
    /\ ~Truthy(flt.from_status) /\ ~Truthy(flt.to_status) /\ result = "False"

\* C7: on a "taskStatusUpdated" event the status filter never raises, whatever
\* the shape of an item's before and after: check returns a boolean.
C7_StatusCheckNeverRaises ==
    (Returned("TaskStatusFilter") /\ event.event = "taskStatusUpdated")
    => result \in {"True", "False"}

(* ------------------------------------------------------------------ *)
(* Claims about CombinedFilter and about construction                 *)
(* ------------------------------------------------------------------ *)
ChildReturns(i) == Filter_check(flt.filters[i], event) = "True"

\* C5: CombinedFilter.check with children awaits every child's check once, in
\* list order, also after the result is decided, and returns their
\* conjunction (AND) or disjunction (OR); without children it returns true.
C5_EveryChildOnceThenReduce ==
    Returned("CombinedFilter")
    => IF flt.filters = <<>> THEN result = "True"
       ELSE /\ calls = [i \in 1..Len(flt.filters) |-> i]
            /\ result = IF flt.logic = AND
                        THEN (IF \A i \in 1..Len(flt.filters) : ChildReturns(i)
                              THEN "True" ELSE "False")
                        ELSE (IF \E i \in 1..Len(flt.filters) : ChildReturns(i)
                              THEN "True" ELSE "False")

\* wherever no child raises, every child was awaited and the reduction returned
C5_HoldsWhenChildrenReturn ==
    (Returned("CombinedFilter") /\ result \in {"True", "False"})
    => C5_EveryChildOnceThenReduce

\* C9: configuration errors are raised by the constructor and never by check:
\* a CustomFieldFilter given neither field_id nor field_name is not built, a
\* CombinedFilter whose upper-cased logic is neither "AND" nor "OR" is not
\* built, and a filter that was built is checked holding usable criteria and
\* never ends in the configuration error.
C9_ConfigErrorsAtConstruction ==
    /\ (pc # "init" /\ args.kind = "CustomFieldFilter"
          /\ ~Truthy(args.a) /\ ~Truthy(args.b)) => pc = "failed"
    /\ (pc # "init" /\ args.kind = "CombinedFilter"
          /\ Upper(args.logic) \notin {AND, OR}) => pc = "failed"
    /\ pc \in {"built", "done"} =>
          /\ flt.kind = "CustomFieldFilter" => Truthy(flt.field_id) \/ Truthy(flt.field_name)
          /\ flt.kind = "CombinedFilter" => flt.logic \in {AND, OR}
          /\ result # "ValueError"

\* a CombinedFilter with children and the logic "XOR" was refused
C9_Witness ==
    /\ pc = "failed" /\ args.kind = "CombinedFilter"
    /\ args.logic = <<88, 79, 82>> /\ args.filters # <<>>

TypedKinds == {"CustomFieldFilter", "TaskStatusFilter", "TaskAssigneeFilter"}

\* children i and j are typed filters of different kinds
DifferentTyped(i, j) ==
    /\ flt.filters[i].kind \in TypedKinds /\ flt.filters[j].kind \in TypedKinds
    /\ flt.filters[i].kind # flt.filters[j].kind

\* C11: the typed filters exclude each other: on one event no two typed
\* filters of different kinds both return true, so a CombinedFilter in mode
\* AND holding two typed filters of different kinds returns false on every
\* event.
C11_TypedFiltersExclusive ==
    Returned("CombinedFilter") =>
        /\ \A i, j \in 1..Len(flt.filters) :
              DifferentTyped(i, j) => ~(ChildReturns(i) /\ ChildReturns(j))
        /\ (flt.logic = AND /\ \E i, j \in 1..Len(flt.filters) : DifferentTyped(i, j))
              => result = "False"

\* wherever no child raises, the AND of two kinds of typed filters is false
C11_HoldsWhenChildrenReturn ==
    (Returned("CombinedFilter") /\ result \in {"True", "False"})
    => C11_TypedFiltersExclusive

(* ------------------------------------------------------------------ *)
(* Value formatters                                                   *)
(* ------------------------------------------------------------------ *)
\* "N/A", " UZS", " ta"
DEFAULT_VALUE == <<78, 47, 65>>
CURRENCY_SUFFIX == <<32, 85, 90, 83>>
NUMBER_SUFFIX == <<32, 116, 97>>
MILLISECONDS_TO_SECONDS == 1000

IsDigits(s) == s # <<>> /\ \A i \in 1..Len(s) : s[i] \in 48..57

RECURSIVE Strip(_)
\* s.strip(), for blanks
Strip(s) == IF s # <<>> /\ Head(s) = 32 THEN Strip(Tail(s))
            ELSE IF s # <<>> /\ s[Len(s)] = 32 THEN Strip(SubSeq(s, 1, Len(s) - 1))
            ELSE s

RECURSIVE NoLeadingZeros(_)
NoLeadingZeros(d) == IF Len(d) > 1 /\ Head(d) = 48 THEN NoLeadingZeros(Tail(d)) ELSE d

\* the decimal text of the integer with sign character sign and digits d
Signed(sign, d) ==
    LET m == NoLeadingZeros(d)
    IN  IF sign = 45 /\ m # <<48>> THEN <<45>> \o m ELSE m

IntOk(s) == [exc |-> "none", s |-> s]
IntRaises(e) == [exc |-> e, s |-> <<>>]

\* int(text): an optional sign and digits, blanks around them
IntOfStr(text) ==
    LET body == Strip(text)
        signed == body # <<>> /\ Head(body) \in {43, 45}
        digits == IF signed THEN Tail(body) ELSE body
    IN  IF IsDigits(digits)
        THEN IntOk(Signed(IF signed THEN Head(body) ELSE 43, digits))
        ELSE IntRaises("ValueError")

\* the text before the decimal point
RECURSIVE Whole(_)
Whole(s) == IF s = <<>> \/ Head(s) = 46 THEN <<>> ELSE <<Head(s)>> \o Whole(Tail(s))

\* int(x) of a float: infinities and nan have no integer, the rest truncate
IntOfFloat(text) ==
    IF text \in {<<105, 110, 102>>, <<45, 105, 110, 102>>} THEN IntRaises("OverflowError")
    ELSE IF text = <<110, 97, 110>> THEN IntRaises("ValueError")
    ELSE LET w == Whole(text)
         IN  IF Head(w) = 45 THEN IntOk(Signed(45, Tail(w))) ELSE IntOk(Signed(43, w))

\* int(value): the integer's decimal text, or the exception raised
IntOf(v) ==
    CASE v.t = "int" -> IntOk(v.s)
      [] v.t = "bool" -> IntOk(IF Truthy(v) THEN <<49>> ELSE <<48>>)
      [] v.t = "float" -> IntOfFloat(v.s)
      [] v.t = "str" -> IntOfStr(v.s)
      [] OTHER -> IntRaises("TypeError")

RECURSIVE Grouped(_)
\* digits in groups of three, separated by blanks
Grouped(d) == IF Len(d) <= 3 THEN d
              ELSE Grouped(SubSeq(d, 1, Len(d) - 3)) \o <<32>> \o SubSeq(d, Len(d) - 2, Len(d))

\* f"{num:,}".replace(",", " ")
GroupedInt(s) == IF Head(s) = 45 THEN <<45>> \o Grouped(Tail(s)) ELSE Grouped(s)

\* what a formatter call ends in: a string (form says how it was made) or an
\* exception that leaves the function
Returns(form, s) == [kind |-> "str", form |-> form, s |-> s]
Escapes(exc) == [kind |-> "raise", form |-> exc, s |-> <<>>]

format_currency(v) ==
    IF ~Truthy(v) THEN Returns("default", DEFAULT_VALUE)
    ELSE LET num == IntOf(v)
         IN  IF num.exc = "none"
             THEN Returns("formatted", GroupedInt(num.s) \o CURRENCY_SUFFIX)
             ELSE IF num.exc \in {"ValueError", "TypeError"} THEN Returns("raw", PyStr(v))
             ELSE Escapes(num.exc)

format_number(v) ==
    IF ~Truthy(v) THEN Returns("default", DEFAULT_VALUE)
    ELSE LET num == IntOf(v)
         IN  IF num.exc = "none" THEN Returns("formatted", num.s \o NUMBER_SUFFIX)
             ELSE IF num.exc \in {"ValueError", "TypeError"} THEN Returns("raw", PyStr(v))
             ELSE Escapes(num.exc)

\* a <= b for digit strings without leading zeros
RECURSIVE LexLeq(_, _)
LexLeq(a, b) == \/ a = <<>>
                \/ Head(a) < Head(b)
                \/ Head(a) = Head(b) /\ LexLeq(Tail(a), Tail(b))
NumLeq(a, b) == Len(a) < Len(b) \/ (Len(a) = Len(b) /\ LexLeq(a, b))

\* |n| \div MILLISECONDS_TO_SECONDS on decimal text: the last digits dropped
WholeSeconds(d) ==
    LET k == Len(Digits(MILLISECONDS_TO_SECONDS)) - 1
    IN  IF Len(d) <= k THEN <<48>> ELSE SubSeq(d, 1, Len(d) - k)

\* seconds from the epoch to the last second of year 9999 and back to the
\* first of year 1, the largest second localtime() can convert, and 2^63 - 1
LastSecond == <<50,53,51,52,48,50,51,48,48,55,57,57>>
FirstSecond == <<54,50,49,51,53,53,57,54,56,48,48>>
LastLocaltime == <<54,55,55,54,55,57,55,54,50,51,51,53,51,50,55,57,57>>
LastTimeT == <<57,50,50,51,51,55,50,48,51,54,56,53,52,55,55,53,56,48,55>>

\* datetime.fromtimestamp(int / 1000): "none" when it returns a date, else
\* the exception it raises
FromTimestamp(s) ==
    LET neg == Head(s) = 45
        secs == WholeSeconds(IF neg THEN Tail(s) ELSE s)
    IN  IF NumLeq(secs, IF neg THEN FirstSecond ELSE LastSecond) THEN "none"
        ELSE IF NumLeq(secs, LastLocaltime) THEN "ValueError"
        ELSE IF NumLeq(secs, LastTimeT) THEN "OSError"
        ELSE "OverflowError"

\* the date text itself is not computed: a returned date carries the
\* integer it was made from
format_deadline(v) ==
    IF ~Truthy(v) THEN Returns("default", DEFAULT_VALUE)
    ELSE IF v.t \in {"int", "bool", "str"}
         THEN LET num == IntOf(v)
                  exc == IF num.exc = "none" THEN FromTimestamp(num.s) ELSE num.exc
              IN  IF exc = "none" THEN Returns("date", num.s)
                  ELSE IF exc \in {"ValueError", "TypeError", "OSError"}
                       THEN Returns("raw", PyStr(v))
                  ELSE Escapes(exc)
         ELSE Returns("raw", PyStr(v))

\* 1 followed by k zeros
Pow10(k) == <<49>> \o [i \in 1..k |-> 48]

FormatValues ==
    { NoneV, IntV(0), IntV(7), IntV(1234567), IntV(-1234), IntV(-7),
      BigIntV(<<49,55,48,48,48,48,48,48,48,48,48,48,48>>),
      BigIntV(Pow10(14)), BigIntV(Pow10(15)), BigIntV(Pow10(18)),
      BigIntV(Pow10(21)), BigIntV(Pow10(22)), BigIntV(<<45>> \o Pow10(23)),
      BoolV(<<84, 114, 117, 101>>), BoolV(<<70, 97, 108, 115, 101>>),
      FloatV(<<48, 46, 48>>), FloatV(<<49, 46, 53>>), FloatV(<<45, 48, 46, 53>>),
      FloatV(<<105, 110, 102>>), FloatV(<<110, 97, 110>>),
      StrV(<<>>), StrV(<<55>>), StrV(<<97, 98, 99>>), StrV(<<49, 46, 53>>),
      StrV(<<32, 49, 50, 32>>), StrV(<<45, 48>>), StrV(<<48, 48, 55>>),
      StrV(<<49,55,48,48,48,48,48,48,48,48,48,48,48>>), StrV(Pow10(22)),
      ObjV(<<91, 93>>), ObjV(<<91, 49, 93>>) }

Formatters == {"format_currency", "format_number", "format_deadline"}

FiltersIdle == /\ pc = "idle" /\ args = Args("none", NoneV, NoneV, <<>>, <<>>)
               /\ event = Event("none", NoHistory) /\ flt = NoFilter
               /\ result = "none" /\ calls = <<>>

InitFormat == /\ fn \in Formatters /\ value \in FormatValues /\ output = NoOutput
              /\ FiltersIdle /\ registry = <<>> /\ invoked = <<>>

Formatted(out) ==
    /\ output = NoOutput /\ output' = out
    /\ UNCHANGED <<pc, args, event, flt, result, calls, registry, invoked, fn, value>>

FormatCurrency == fn = "format_currency" /\ Formatted(format_currency(value))
FormatNumber == fn = "format_number" /\ Formatted(format_number(value))
FormatDeadline == fn = "format_deadline" /\ Formatted(format_deadline(value))

NextFormat == FormatCurrency \/ FormatNumber \/ FormatDeadline

SpecFormat == InitFormat /\ [][NextFormat]_vars

\* the call could not convert its value: int() or the date conversion raised
ConversionFailed ==
    /\ Truthy(value)
    /\ \/ IntOf(value).exc # "none" /\ (fn # "format_deadline" \/ value.t \in {"int", "bool", "str"})
       \/ /\ fn = "format_deadline" /\ value.t \in {"int", "bool", "str"}
          /\ IntOf(value).exc = "none" /\ FromTimestamp(IntOf(value).s) # "none"

\* C10: the three formatters are total: whatever the value, they return a
\* string and let no exception out, and a failed conversion returns str(value).
C10_FormattersTotal ==
    output # NoOutput =>
        /\ output.kind = "str"
        /\ ConversionFailed => output.s = PyStr(value)

\* the calls that end in OverflowError are the only ones that break C10
C10_HoldsExceptOverflow ==
    (output # NoOutput /\ ~(output.kind = "raise" /\ output.form = "OverflowError"))
    => C10_FormattersTotal

(* ------------------------------------------------------------------ *)
(* Dispatcher                                                         *)
(* ------------------------------------------------------------------ *)
\* most registrations made before an event is dispatched
MaxHandlers == 2

\* on(event_type, filter=None)(handler): one more entry at the end of the
\* registry; the handler is known by the position of its registration
Registration(event_type, filter) == [event_type |-> event_type, filter |-> filter]
on(reg, event_type, filter) == Append(reg, Registration(event_type, filter))

\* the entry's filter accepts the event; an entry without filter always does
Accepts(entry, ev) ==
    entry.filter.kind = "none" \/ Filter_check(entry.filter, ev) = "True"

\* dispatch stopping at the first handler it invoked
RECURSIVE dispatch_FirstOnly(_, _, _)
dispatch_FirstOnly(reg, ev, i) ==
    IF i > Len(reg) THEN <<>>
    ELSE IF reg[i].event_type = ev.event /\ Accepts(reg[i], ev)
         THEN <<[handler |-> i, event |-> ev]>>
         ELSE dispatch_FirstOnly(reg, ev, i + 1)

\* dispatch(event) from entry i on: the handler calls made, in order, each
\* with the event it was given
RECURSIVE dispatch(_, _, _)
dispatch(reg, ev, i) ==
    IF i > Len(reg) THEN <<>>
    ELSE IF reg[i].event_type = ev.event /\ Accepts(reg[i], ev)
         THEN <<[handler |-> i, event |-> ev]>> \o dispatch(reg, ev, i + 1)
         ELSE dispatch(reg, ev, i + 1)

\* the registrations of the filter example: event types and filters
HandlerEventTypes == {"taskUpdated", "taskStatusUpdated"}
HandlerFilters ==
    { NoFilter,
      CustomFieldFilter_init(StrV(sx), NoneV),
      CustomFieldFilter_init(NoneV, StrV(sy)),
      TaskStatusFilter_init(NoneV, StrV(sB)),
      CombinedFilter_init(<<CustomFieldFilter_init(StrV(sx), NoneV)>>, AND) }

\* events handed to the dispatcher
DispatchedEvents ==
    { Event("taskCreated", NoHistory),
      Event("taskUpdated", NoHistory),
      Event("taskupdated", History(<<[EmptyItem EXCEPT !.field_id = StrV(sx)]>>)),
      Event("taskUpdated", History(<<[EmptyItem EXCEPT !.field_id = StrV(sx)]>>)),
      Event("taskUpdated", History(<<[EmptyItem EXCEPT !.field = StrV(saY)]>>)),
      Event("taskUpdated", History(<<[EmptyItem EXCEPT !.field_id = StrV(sx),
                                                       !.field = StrV(sy)]>>)),
      Event("taskStatusUpdated", History(<<[EmptyItem EXCEPT
                 !.after = WithStatus(StatusDict(StrV(sb)))]>>)),
      Event("taskStatusUpdated", History(<<[EmptyItem EXCEPT
                 !.after = WithStatus(StatusDict(StrV(sa)))]>>)) }

InitDispatch ==
    /\ registry = <<>> /\ invoked = <<>>
    /\ pc = "setup" /\ event = Event("none", NoHistory)
    /\ args = Args("none", NoneV, NoneV, <<>>, <<>>) /\ flt = NoFilter
    /\ result = "none" /\ calls = <<>>
    /\ fn = "none" /\ value = NoneV /\ output = NoOutput

Register ==
    /\ pc = "setup" /\ Len(registry) < MaxHandlers
    /\ \E et \in HandlerEventTypes, f \in HandlerFilters : registry' = on(registry, et, f)
    /\ UNCHANGED <<pc, args, event, flt, result, calls, invoked, fn, value, output>>

Dispatch ==
    /\ pc = "setup"
    /\ \E ev \in DispatchedEvents :
          /\ event' = ev
          /\ invoked' = dispatch(registry, ev, 1)
    /\ pc' = "dispatched"
    /\ UNCHANGED <<args, flt, result, calls, registry, fn, value, output>>

NextDispatch == Register \/ Dispatch

SpecDispatch == InitDispatch /\ [][NextDispatch]_vars

\* how many calls handler i received
Calls(i) == Cardinality({k \in 1..Len(invoked) : invoked[k].handler = i})

\* C8: dispatching an event calls, once each and in registration order, the
\* handlers registered for exactly its type whose filter accepts it (no
\* filter accepts everything), each with that same event; handlers of other
\* types are not called, and an entry's filter refusing does not keep a later
\* handler from running.
C8_DispatchInRegistrationOrder ==
    pc = "dispatched" =>
        /\ \A i \in 1..Len(registry) :
              Calls(i) = IF registry[i].event_type = event.event /\ Accepts(registry[i], event)
                         THEN 1 ELSE 0
        /\ \A k \in 1..Len(invoked) :
              /\ invoked[k].handler \in 1..Len(registry)
              /\ invoked[k].event = event
              /\ \A j \in 1..(k - 1) : invoked[j].handler < invoked[k].handler

\* two handlers of the event's type were called in registration order, the
\* first registered without a filter and the second behind one that accepted
C8_Witness ==
    /\ pc = "dispatched" /\ Len(registry) = 2 /\ Len(invoked) = 2
    /\ registry[1].filter.kind = "none" /\ registry[2].filter.kind = "CustomFieldFilter"
    /\ invoked[1].handler = 1 /\ invoked[2].handler = 2

====
